---- MODULE Spec2Model ----
(***************************************************************************)
(* blue-number-resetter: model of main.rs.                                 *)
(*                                                                         *)
(* One invocation of the tool is one pass through edit_save: copy the save *)
(* file to a backup, read it, decode it, navigate to the CharacterSaves    *)
(* array, check the slot count, partition the slots by SavegameID, rewrite *)
(* TimesRetired / RetiredCharacterLevels of the active slots, compute the  *)
(* red levels of the inactive slot, rewrite it, encode and overwrite the   *)
(* save file.  The file system, the in-memory buffer, the decoded tree and *)
(* the locals of edit_save are the state.                                  *)
(***************************************************************************)
EXTENDS Integers, Sequences, FiniteSets, TLC

\* ---------------------------------------------------------------- bounds
\* Largest number of malformed slots in an input tree.
MaxDefects == 1
\* Promotions of a class that has been played before the tool is run.
OldPromos == 3

\* ------------------------------------------------------ program constants
MIN_PROMOS == 1
RED_LEVELS_PER_PROMO == 25
target_blue_level == 0 - 69
NumClassSlots == 5
inactive_class_save_uuid == "d6d5686e-4547-e66f-46c5-ce8e28b16827"

\* -------------------------------------------------------------- integers
\* Rust's `/` on i32 truncates toward zero (TLA+'s \div floors).
TruncDiv(a, b) ==
  IF a >= 0 THEN a \div b ELSE 0 - ((0 - a) \div b)

\* An i32 as the four little-endian bytes the container stores (two's
\* complement), and back.
ToLeBytes(v) ==
  << v % 256, (v \div 256) % 256, (v \div 65536) % 256, (v \div 16777216) % 256 >>
FromLeBytes(b) ==
  b[1] + 256 * b[2] + 65536 * b[3] + 16777216 * (IF b[4] >= 128 THEN b[4] - 256 ELSE b[4])

\* ------------------------------------------------------- the property tree
\* uesave::Property, reduced to the variants edit_save inspects.  Every
\* property is a record of the same shape; fields a variant does not have
\* are left blank.
IntProperty(v) ==
  [variant |-> "Int", struct_type |-> "", value_variant |-> "", guid |-> "", value |-> v]
GuidProperty(u) ==
  [variant |-> "Struct", struct_type |-> "Guid", value_variant |-> "Guid", guid |-> u, value |-> 0]
StrProperty ==
  [variant |-> "Str", struct_type |-> "", value_variant |-> "", guid |-> "", value |-> 0]

\* StructValue::Struct(props) of one class save slot.
ClassSave(id, times_retired, retired_levels) ==
  [variant |-> "Struct",
   props |-> [SavegameID |-> GuidProperty(id),
              TimesRetired |-> IntProperty(times_retired),
              RetiredCharacterLevels |-> IntProperty(retired_levels),
              XP |-> IntProperty(1000 * times_retired)]]

\* IndexMap without one key.
WithoutKey(props, k) == [n \in (DOMAIN props) \ {k} |-> props[n]]

\* Property::Array { array_type, value: ValueArray::Struct { .. } }
CharacterSavesArray(slots) ==
  [variant |-> "Array", array_type |-> "StructProperty",
   value |-> [variant |-> "Struct", _type |-> "CharacterSaves", name |-> "StructProperty",
              struct_type |-> "CharacterSave", value |-> slots]]

\* uesave::Save: root.properties holds CharacterSaves and the rest of the profile.
SaveOf(slots) ==
  [root |-> [properties |-> [CharacterSaves |-> CharacterSavesArray(slots),
                             Credits |-> IntProperty(12345)]]]

HasCharacterSaves(s) == "CharacterSaves" \in DOMAIN s.root.properties
class_saves_of(s) == s.root.properties["CharacterSaves"].value.value
WithClassSaves(s, slots) ==
  [s EXCEPT !.root.properties["CharacterSaves"].value.value = slots]

BlankSave == SaveOf(<< >>)

\* ------------------------------------------------------------- the codec
IsIntField(props, k) == k \in DOMAIN props /\ props[k].variant = "Int"

\* A property as stored (to_bytes) or as decoded: only Property::Int has a payload here.
Recode(prop, to_bytes) ==
  IF prop.variant # "Int" THEN prop
  ELSE [prop EXCEPT !.value = IF to_bytes THEN ToLeBytes(@) ELSE FromLeBytes(@)]

\* The tree with every property recoded.
RecodeSave(s, to_bytes) ==
  [s EXCEPT !.root.properties =
     [n \in DOMAIN s.root.properties |->
        IF n # "CharacterSaves" THEN Recode(s.root.properties[n], to_bytes)
        ELSE [s.root.properties[n] EXCEPT !.value.value =
                [i \in DOMAIN @ |->
                   [@[i] EXCEPT !.props = [k \in DOMAIN @ |-> Recode(@[k], to_bytes)]]]]]]

\* Save::write: the bytes of a tree (Int payloads as little-endian bytes).
EncodeSave(s) == [kind |-> "container", save |-> RecodeSave(s, TRUE)]
\* Save::read of a well-formed container.
DecodeBytes(b) == RecodeSave(b.save, FALSE)

GarbageBytes == [kind |-> "garbage", save |-> BlankSave]
AbsentFile == [kind |-> "absent", save |-> BlankSave]
EmptyBuf == [kind |-> "empty", save |-> BlankSave]

\* ------------------------------------------------------------------ paths
\* A path as its dot-separated components; Path::with_extension replaces the
\* last component after the stem (or appends when there is none).
\* A wrong with_extension, which leaves the path as it is.
with_extension_same(path, ext) == path

with_extension(path, ext) ==
  (IF Len(path) > 1 THEN SubSeq(path, 1, Len(path) - 1) ELSE path) \o ext

save_path == << "Player", "sav" >>
backup_save_path == with_extension(save_path, << "sav", "bak" >>)
Paths == {save_path, backup_save_path}

\* ------------------------------------------------------------ input files
\* SavegameID of a playable class (any Guid other than the inactive one).
ActiveUuid == "ae56e180-fec0-4d4d-419a-3c9d6b4ec4aa"
Uuids == {inactive_class_save_uuid, ActiveUuid}

\* (TimesRetired, RetiredCharacterLevels) of a slot before the tool runs.
PlayedPair == << OldPromos, 7 >>

\* The ways a slot of a decoded container can be malformed.  (The decoder
\* reads every element of an array of StructType::Struct as
\* StructValue::Struct, so a slot of another value kind is no input.)
SlotDefects ==
  {"NoSavegameID", "SavegameIDNotGuid", "NoTimesRetired",
   "TimesRetiredNotInt", "NoRetiredCharacterLevels", "RetiredCharacterLevelsNotInt"}

Malformed(cs, d) ==
  CASE d = "NoSavegameID" -> [cs EXCEPT !.props = WithoutKey(cs.props, "SavegameID")]
    [] d = "SavegameIDNotGuid" ->
         [cs EXCEPT !.props = [k \in DOMAIN cs.props |->
                                 IF k = "SavegameID" THEN StrProperty ELSE cs.props[k]]]
    [] d = "NoTimesRetired" -> [cs EXCEPT !.props = WithoutKey(cs.props, "TimesRetired")]
    [] d = "TimesRetiredNotInt" ->
         [cs EXCEPT !.props = [k \in DOMAIN cs.props |->
                                 IF k = "TimesRetired" THEN StrProperty ELSE cs.props[k]]]
    [] d = "NoRetiredCharacterLevels" ->
         [cs EXCEPT !.props = WithoutKey(cs.props, "RetiredCharacterLevels")]
    [] OTHER ->
         [cs EXCEPT !.props = [k \in DOMAIN cs.props |->
                                 IF k = "RetiredCharacterLevels" THEN StrProperty
                                 ELSE cs.props[k]]]

\* A slot is well formed when it is a Struct value carrying the three fields
\* edit_save reads, with the types it expects.
WellFormedSlot(cs) ==
  /\ cs.variant = "Struct"
  /\ "SavegameID" \in DOMAIN cs.props
  /\ cs.props["SavegameID"].variant = "Struct"
  /\ cs.props["SavegameID"].struct_type = "Guid"
  /\ cs.props["SavegameID"].value_variant = "Guid"
  /\ IsIntField(cs.props, "TimesRetired")
  /\ IsIntField(cs.props, "RetiredCharacterLevels")

\* The slots of an input file: slot i carries SavegameID ids[i], has never
\* been played when i \in fresh, and is malformed as defects[i] says when
\* i \in DOMAIN defects.
SlotsFrom(ids, fresh, defects) ==
  [i \in DOMAIN ids |->
     LET pair == IF i \in fresh THEN << 0, 0 >> ELSE PlayedPair
         cs == ClassSave(ids[i], pair[1], pair[2])
     IN IF i \in DOMAIN defects THEN Malformed(cs, defects[i]) ELSE cs]

SlotCounts == {NumClassSlots - 1, NumClassSlots, NumClassSlots + 1}

\* The ways the root of a decoded container can be malformed.  (The decoder
\* reads the body of an array of StructProperty as ValueArray::Struct, and
\* of any other array as ValueArray::Base.)
RootDefects ==
  {"NoCharacterSaves", "NotArray", "WrongArrayType",
   "WrongType", "WrongName", "WrongStructType"}

MalformedRoot(s, d) ==
  CASE d = "NoCharacterSaves" ->
         [s EXCEPT !.root.properties = WithoutKey(s.root.properties, "CharacterSaves")]
    [] d = "NotArray" -> [s EXCEPT !.root.properties["CharacterSaves"].variant = "Int"]
    [] d = "WrongArrayType" ->
         [s EXCEPT !.root.properties["CharacterSaves"].array_type = "IntProperty",
                   !.root.properties["CharacterSaves"].value.variant = "Base"]
    [] d = "WrongType" ->
         [s EXCEPT !.root.properties["CharacterSaves"].value._type = "Other"]
    [] d = "WrongName" ->
         [s EXCEPT !.root.properties["CharacterSaves"].value.name = "Other"]
    [] OTHER ->
         [s EXCEPT !.root.properties["CharacterSaves"].value.struct_type = "Guid"]

ValidSlots == [i \in 1..NumClassSlots |->
                 ClassSave(IF i = 2 THEN inactive_class_save_uuid ELSE ActiveUuid,
                           PlayedPair[1], PlayedPair[2])]

\* What the save path holds before the tool is first run:
\*  - five well-formed slots, every combination of ids and previous values;
\*  - four, five or six played slots of which up to MaxDefects are malformed;
\*  - a valid slot array under a malformed root;
\*  - bytes that are no container, or no file at all.
InputFile(f) == [p \in Paths |-> IF p = save_path THEN f ELSE AbsentFile]

\* ------------------------------------------------------------------ state
VARIABLES
  pc,                     \* where the invocation stands in edit_save
  result,                 \* how the invocation ended ("none" while it runs)
  disk,                   \* the bytes behind save_path and backup_save_path
  buf,                    \* `buf`
  save,                   \* `save`, the decoded tree
  inactive_class_saves,   \* indices into class_saves (the &mut references)
  active_class_saves,
  next_active,            \* position of the `for` loop in active_class_saves
  diff_red_level,
  debug_enabled,          \* whether the debug! call sites are enabled
  start_bytes,            \* history: what save_path held when the invocation began
  processed               \* history: the file was written by a successful invocation

vars == << pc, result, disk, buf, save, inactive_class_saves, active_class_saves,
           next_active, diff_red_level, debug_enabled, start_bytes, processed >>

locals == << inactive_class_saves, active_class_saves, next_active, diff_red_level >>

Init ==
  /\ pc = "idle"
  /\ result = "none"
  /\ \/ \E ids \in [1..NumClassSlots -> Uuids], fresh \in SUBSET (1..NumClassSlots) :
          disk = InputFile(EncodeSave(SaveOf(SlotsFrom(ids, fresh, << >>))))
     \/ \E n \in SlotCounts :
          \E ids \in [1..n -> Uuids] :
            \E P \in {Q \in SUBSET (1..n) : Cardinality(Q) <= MaxDefects} :
              \E defects \in [P -> SlotDefects] :
                disk = InputFile(EncodeSave(SaveOf(SlotsFrom(ids, {}, defects))))
     \/ \E d \in RootDefects :
          disk = InputFile(EncodeSave(MalformedRoot(SaveOf(ValidSlots), d)))
     \/ \E f \in {GarbageBytes, AbsentFile} : disk = InputFile(f)
  /\ buf = EmptyBuf
  /\ save = BlankSave
  /\ inactive_class_saves = << >>
  /\ active_class_saves = << >>
  /\ next_active = 1
  /\ diff_red_level = 0
  /\ debug_enabled = FALSE
  /\ start_bytes = AbsentFile
  /\ processed = FALSE

\* An invocation that ends: Err(..) out of edit_save, a panic, or Ok(()).
Ends(r) == pc' = "done" /\ result' = r

\* main: a new process; logging is set up and edit_save is entered.  The tool
\* is run on the input file, and again on a file it has written.
Main ==
  /\ pc = "idle" \/ (pc = "done" /\ result = "ok")
  /\ pc' = "copy"
  /\ result' = "none"
  /\ debug_enabled' \in BOOLEAN
  /\ start_bytes' = disk[save_path]
  /\ processed' = (result = "ok")
  /\ buf' = EmptyBuf
  /\ save' = BlankSave
  /\ inactive_class_saves' = << >>
  /\ active_class_saves' = << >>
  /\ next_active' = 1
  /\ diff_red_level' = 0
  /\ UNCHANGED disk

\* fs::copy(&save_path, &backup_save_path)?
CopyBackup ==
  /\ pc = "copy"
  /\ \/ /\ disk[save_path].kind # "absent"
        /\ disk' = [disk EXCEPT ![backup_save_path] = disk[save_path]]
        /\ pc' = "read"
        /\ UNCHANGED result
     \/ /\ \E left \in {disk[backup_save_path], GarbageBytes} :
             disk' = [disk EXCEPT ![backup_save_path] = left]
        /\ Ends("copy_failed")
  /\ UNCHANGED << buf, save, locals, debug_enabled, start_bytes, processed >>

\* let mut buf = fs::read(save_path)?
ReadFile ==
  /\ pc = "read"
  /\ \/ /\ disk[save_path].kind # "absent"
        /\ buf' = disk[save_path]
        /\ pc' = "decode"
        /\ UNCHANGED result
     \/ /\ Ends("read_failed")
        /\ UNCHANGED buf
  /\ UNCHANGED << disk, save, locals, debug_enabled, start_bytes, processed >>

\* let mut save = Save::read(&mut cursor)?
ReadSave ==
  /\ pc = "decode"
  /\ IF buf.kind = "container"
     THEN /\ save' = DecodeBytes(buf)
          /\ pc' = "navigate"
          /\ UNCHANGED result
     ELSE /\ Ends("decode_error")
          /\ UNCHANGED save
  /\ UNCHANGED << disk, buf, locals, debug_enabled, start_bytes, processed >>

\* Lines 35-49: the outcome of destructuring root.properties["CharacterSaves"].
NavigateOutcome(s) ==
  IF ~HasCharacterSaves(s) THEN "panic"
  ELSE LET p == s.root.properties["CharacterSaves"] IN
       IF p.variant # "Array" THEN "shape_error"
       ELSE IF p.array_type # "StructProperty" THEN "shape_error"
       ELSE IF p.value.variant # "Struct" THEN "shape_error"
       ELSE IF p.value._type # "CharacterSaves" THEN "shape_error"
       ELSE IF p.value.name # "StructProperty" THEN "shape_error"
       ELSE IF p.value.struct_type # "CharacterSave" THEN "shape_error"
       ELSE "ok"

Navigate ==
  /\ pc = "navigate"
  /\ IF NavigateOutcome(save) = "ok"
     THEN pc' = "check_len" /\ UNCHANGED result
     ELSE Ends(NavigateOutcome(save))
  /\ UNCHANGED << disk, buf, save, locals, debug_enabled, start_bytes, processed >>

\* ensure!(class_saves.len() == 5, "expected 5 class save slots")
CheckLen ==
  /\ pc = "check_len"
  /\ IF Len(class_saves_of(save)) = NumClassSlots
     THEN pc' = "partition" /\ UNCHANGED result
     ELSE Ends("count_error")
  /\ UNCHANGED << disk, buf, save, locals, debug_enabled, start_bytes, processed >>

\* The partition closure (lines 57-75) on one slot: "panic" when the slot is
\* not StructValue::Struct or has no SavegameID key, else whether it is the
\* inactive class.  A SavegameID that is not a Guid struct makes it `false`.
ClosureOutcome(cs) ==
  IF cs.variant # "Struct" THEN "panic"
  ELSE IF "SavegameID" \notin DOMAIN cs.props THEN "panic"
  ELSE LET id == cs.props["SavegameID"] IN
       IF ~(id.variant = "Struct" /\ id.value_variant = "Guid" /\ id.struct_type = "Guid")
       THEN "false"
       ELSE IF inactive_class_save_uuid = id.guid THEN "true" ELSE "false"

\* The indices i (in order) of the slots on which the closure returns `want`.
RECURSIVE Selected(_, _, _)
Selected(slots, want, from) ==
  IF from > Len(slots) THEN << >>
  ELSE (IF ClosureOutcome(slots[from]) = want THEN << from >> ELSE << >>)
         \o Selected(slots, want, from + 1)

\* class_saves.iter_mut().partition(..) and the ensure! on its first half.
Partition ==
  /\ pc = "partition"
  /\ LET slots == class_saves_of(save) IN
     IF \E i \in DOMAIN slots : ClosureOutcome(slots[i]) = "panic"
     THEN /\ Ends("panic")
          /\ UNCHANGED << inactive_class_saves, active_class_saves >>
     ELSE /\ inactive_class_saves' = Selected(slots, "true", 1)
          /\ active_class_saves' = Selected(slots, "false", 1)
          /\ IF Len(Selected(slots, "true", 1)) = 1
             THEN pc' = "active_loop" /\ UNCHANGED result
             ELSE Ends("count_error")
  /\ UNCHANGED << disk, buf, save, next_active, diff_red_level, debug_enabled,
                  start_bytes, processed >>

\* Wrong assignments: `*value = max(*value, v)` and `*value += v`.
AssignAtLeast(prop, v) == [prop EXCEPT !.value = IF prop.value > v THEN prop.value ELSE v]
AssignAdd(prop, v) == [prop EXCEPT !.value = prop.value + v]

\* `*value = v` on a Property::Int.
Assign(prop, v) == [prop EXCEPT !.value = v]

\* Wrong field writes: one that skips a field that is no Int instead of
\* bailing out, and one that also resets XP.
WriteLevelsLenient(cs, times_retired, retired_levels, dbg) ==
  LET has(k) == k \in DOMAIN cs.props
      set(c, k, v) == IF IsIntField(c.props, k)
                      THEN [c EXCEPT !.props[k] = Assign(c.props[k], v)] ELSE c
  IN
  IF ~(has("TimesRetired") /\ has("RetiredCharacterLevels"))
  THEN [outcome |-> "panic", slot |-> cs]
  ELSE [outcome |-> "ok",
        slot |-> set(set(cs, "TimesRetired", times_retired),
                     "RetiredCharacterLevels", retired_levels)]

WriteLevelsWithXP(cs, times_retired, retired_levels, dbg) ==
  LET has(k) == k \in DOMAIN cs.props
      set(c, k, v) == [c EXCEPT !.props[k] = Assign(c.props[k], v)]
  IN
  IF has("TimesRetired") /\ has("RetiredCharacterLevels")
       /\ cs.props["TimesRetired"].variant = "Int"
       /\ cs.props["RetiredCharacterLevels"].variant = "Int"
  THEN [outcome |-> "ok",
        slot |-> set(set(set(cs, "TimesRetired", times_retired),
                         "RetiredCharacterLevels", retired_levels), "XP", 0)]
  ELSE [outcome |-> IF has("TimesRetired") /\ has("RetiredCharacterLevels")
                    THEN "field_error" ELSE "panic",
        slot |-> cs]

\* Lines 82-111 (and 124-148): the two field writes on one class save.  The
\* outcome is "ok", "field_error" (a bail!) or "panic" (indexing a key the
\* IndexMap does not hold); `slot` is the class save as it is left.
WriteLevels(cs, times_retired, retired_levels, dbg) ==
  LET has(k) == k \in DOMAIN cs.props
      p1 == [cs EXCEPT !.props["TimesRetired"] =
                         Assign(cs.props["TimesRetired"], times_retired)]
      p2 == [p1 EXCEPT !.props["RetiredCharacterLevels"] =
                         Assign(p1.props["RetiredCharacterLevels"], retired_levels)]
  IN
  IF cs.variant # "Struct" THEN [outcome |-> "field_error", slot |-> cs]
  ELSE IF dbg /\ ~(has("TimesRetired") /\ has("RetiredCharacterLevels"))
    THEN [outcome |-> "panic", slot |-> cs]
  ELSE IF ~has("TimesRetired") THEN [outcome |-> "panic", slot |-> cs]
  ELSE IF cs.props["TimesRetired"].variant # "Int"
    THEN [outcome |-> "field_error", slot |-> cs]
  ELSE IF ~has("RetiredCharacterLevels") THEN [outcome |-> "panic", slot |-> p1]
  ELSE IF cs.props["RetiredCharacterLevels"].variant # "Int"
    THEN [outcome |-> "field_error", slot |-> p1]
  ELSE [outcome |-> "ok", slot |-> p2]

\* One iteration of `for class_save in active_class_saves.iter_mut()`, or
\* the end of the loop.
ActiveLoop ==
  /\ pc = "active_loop"
  /\ IF next_active > Len(active_class_saves)
     THEN /\ pc' = "solve"
          /\ UNCHANGED << result, save, next_active >>
     ELSE LET i == active_class_saves[next_active]
              w == WriteLevels(class_saves_of(save)[i], MIN_PROMOS,
                               RED_LEVELS_PER_PROMO, debug_enabled)
          IN
          /\ save' = WithClassSaves(save, [class_saves_of(save) EXCEPT ![i] = w.slot])
          /\ IF w.outcome = "ok"
             THEN /\ next_active' = next_active + 1
                  /\ UNCHANGED << pc, result >>
             ELSE /\ Ends(w.outcome)
                  /\ UNCHANGED next_active
  /\ UNCHANGED << disk, buf, inactive_class_saves, active_class_saves, diff_red_level,
                  debug_enabled, start_bytes, processed >>

\* Lines 114-119, for n active class saves.
DiffRedLevel(n) ==
  LET active_red_levels == n * (MIN_PROMOS * RED_LEVELS_PER_PROMO)
      active_blue_level == TruncDiv(active_red_levels, 3)
      diff_blue_level == target_blue_level - active_blue_level
  IN diff_blue_level * 3

Solve ==
  /\ pc = "solve"
  /\ diff_red_level' = DiffRedLevel(Len(active_class_saves))
  /\ pc' = "inactive"
  /\ UNCHANGED << result, disk, buf, save, inactive_class_saves, active_class_saves,
                  next_active, debug_enabled, start_bytes, processed >>

\* Lines 122-149: inactive_class_saves.remove(0) and its two field writes.
Inactive ==
  /\ pc = "inactive"
  /\ LET i == Head(inactive_class_saves)
         w == WriteLevels(class_saves_of(save)[i], 0, diff_red_level, debug_enabled)
     IN
     /\ inactive_class_saves' = Tail(inactive_class_saves)
     /\ save' = WithClassSaves(save, [class_saves_of(save) EXCEPT ![i] = w.slot])
     /\ IF w.outcome = "ok"
        THEN pc' = "encode" /\ UNCHANGED result
        ELSE Ends(w.outcome)
  /\ UNCHANGED << disk, buf, active_class_saves, next_active, diff_red_level,
                  debug_enabled, start_bytes, processed >>

\* save.write(&mut Cursor::new(&mut buf))?
WriteSave ==
  /\ pc = "encode"
  /\ \/ /\ buf' = EncodeSave(save)
        /\ pc' = "write"
        /\ UNCHANGED result
     \/ /\ buf' = GarbageBytes
        /\ Ends("encode_failed")
  /\ UNCHANGED << disk, save, locals, debug_enabled, start_bytes, processed >>

\* fs::write(save_path, &buf)?  A failed write may have truncated the file.
WriteFile ==
  /\ pc = "write"
  /\ \/ /\ disk' = [disk EXCEPT ![save_path] = buf]
        /\ Ends("ok")
     \/ /\ \E left \in {disk[save_path], GarbageBytes} :
             disk' = [disk EXCEPT ![save_path] = left]
        /\ Ends("write_failed")
  /\ UNCHANGED << buf, save, locals, debug_enabled, start_bytes, processed >>

Next ==
  \/ Main
  \/ CopyBackup
  \/ ReadFile
  \/ ReadSave
  \/ Navigate
  \/ CheckLen
  \/ Partition
  \/ ActiveLoop
  \/ Solve
  \/ Inactive
  \/ WriteSave
  \/ WriteFile

Spec == Init /\ [][Next]_vars

\* ----------------------------------------------------------------- claims
\* The tree the invocation decoded (meaningful once start_bytes is a container).
InputSave == DecodeBytes(start_bytes)
InputSlots == class_saves_of(InputSave)

\* `save` holds the decoded tree.
Decoded ==
  /\ pc \notin {"idle", "copy", "read", "decode"}
  /\ result \notin {"copy_failed", "read_failed", "decode_error"}

\* What the file behind save_path decodes to.
WrittenSlots == class_saves_of(DecodeBytes(disk[save_path]))

\* The shape the tool navigates: root -> CharacterSaves, an Array of
\* StructProperty whose body declares element struct type CharacterSave.
ShapeOk(s) ==
  /\ HasCharacterSaves(s)
  /\ LET p == s.root.properties["CharacterSaves"] IN
     /\ p.variant = "Array" /\ p.array_type = "StructProperty"
     /\ p.value.variant = "Struct" /\ p.value.struct_type = "CharacterSave"
     /\ p.value._type = "CharacterSaves" /\ p.value.name = "StructProperty"

HasSentinelId(cs) ==
  /\ "SavegameID" \in DOMAIN cs.props
  /\ cs.props["SavegameID"].guid = inactive_class_save_uuid

SentinelCount(slots) == Cardinality({i \in DOMAIN slots : HasSentinelId(slots[i])})

\* A valid tree: the shape above, 5 slots, exactly one with the sentinel id,
\* every slot with a Guid SavegameID and Int TimesRetired/RetiredCharacterLevels.
ValidTree(s) ==
  /\ ShapeOk(s)
  /\ Len(class_saves_of(s)) = NumClassSlots
  /\ SentinelCount(class_saves_of(s)) = 1
  /\ \A i \in DOMAIN class_saves_of(s) : WellFormedSlot(class_saves_of(s)[i])

RECURSIVE RedLevels(_)
RedLevels(slots) ==
  IF slots = << >> THEN 0
  ELSE 25 * Head(slots).props["TimesRetired"].value
         + Head(slots).props["RetiredCharacterLevels"].value + RedLevels(Tail(slots))

\* floor( sum over the slots of (25*TimesRetired + RetiredCharacterLevels) / 3 )
BlueLevel(slots) == RedLevels(slots) \div 3

Succeeded == pc = "done" /\ result = "ok"

\* C1: after edit_save succeeds on a valid tree, the blue level derived from
\* the five slots of the written file equals the target blue level -69.
C1_BlueLevelIsTarget ==
  (Succeeded /\ ValidTree(InputSave)) => BlueLevel(WrittenSlots) = target_blue_level

\* C2: after a successful run on a valid tree the sentinel slot carries
\* TimesRetired = 0 and RetiredCharacterLevels =
\* target*3 - visibleCount*(25*fixedPromotions + fixedRedLevels), i.e. -407.
C2_HiddenSlotValues ==
  (Succeeded /\ ValidTree(InputSave)) =>
    \A i \in DOMAIN WrittenSlots :
      HasSentinelId(WrittenSlots[i]) =>
        /\ WrittenSlots[i].props["TimesRetired"].value = 0
        /\ WrittenSlots[i].props["RetiredCharacterLevels"].value =
             target_blue_level * 3
               - (Len(WrittenSlots) - 1) * (25 * MIN_PROMOS + RED_LEVELS_PER_PROMO)

\* Every check and every field write of the in-memory pipeline succeeds on s:
\* the tree has the navigated shape and 5 slots, every slot has a SavegameID,
\* exactly one of them the sentinel, and Int TimesRetired/RetiredCharacterLevels.
PipelineSucceeds(s) ==
  /\ ShapeOk(s)
  /\ Len(class_saves_of(s)) = NumClassSlots
  /\ SentinelCount(class_saves_of(s)) = 1
  /\ \A i \in DOMAIN class_saves_of(s) :
       LET cs == class_saves_of(s)[i] IN
       /\ "SavegameID" \in DOMAIN cs.props
       /\ IsIntField(cs.props, "TimesRetired")
       /\ IsIntField(cs.props, "RetiredCharacterLevels")

\* C3: the save file changes only in the last step of an invocation, and
\* only when its bytes decoded and the whole in-memory pipeline succeeded on
\* them; an invocation that fails before that step leaves the file holding
\* the bytes it held when the invocation started.
C3_OverwriteOnlyAfterSuccess ==
  [][ /\ (disk'[save_path] # disk[save_path]) =>
           /\ pc = "write" /\ pc' = "done"
           /\ start_bytes.kind = "container"
           /\ PipelineSucceeds(InputSave)
      /\ (pc' = "done" /\ result' \notin {"ok", "write_failed"}) =>
           disk'[save_path] = start_bytes' ]_vars

\* C3 witness: an invocation failed after it had changed the tree in memory,
\* and the file still holds the bytes it started with.
C3_Witness ==
  /\ pc = "done" /\ result = "field_error"
  /\ save # InputSave
  /\ disk[save_path] = start_bytes

\* The invocation got as far as the slot-count checks on its decoded tree.
ReachedCounts == Decoded /\ ShapeOk(InputSave)

BadCount(slots) == Len(slots) # NumClassSlots \/ SentinelCount(slots) # 1

\* C4: if the slot sequence does not have exactly 5 elements, or the number
\* of sentinel slots is not one, the run fails with a count error before any
\* slot field of the in-memory tree has changed.
C4_CountErrorBeforeMutation ==
  (pc = "done" /\ ReachedCounts /\ BadCount(InputSlots)) =>
    (result = "count_error" /\ save = InputSave)

\* C5: an invocation on the file a successful invocation wrote goes through
\* decoding and the whole in-memory pipeline without error and keeps every
\* slot field, hence the blue level, as the first invocation left it, in
\* memory and in the file it writes.
C5_Idempotent ==
  processed =>
    /\ result \notin {"decode_error", "shape_error", "count_error", "field_error", "panic"}
    /\ Decoded => (save = InputSave /\ PipelineSucceeds(InputSave))
    /\ Succeeded => (disk[save_path] = start_bytes
                       /\ BlueLevel(WrittenSlots) = BlueLevel(InputSlots))

\* C5 witness: a second invocation, on the file the first one wrote, succeeded.
C5_Witness == processed /\ Succeeded

\* C6: after a successful run every slot whose SavegameID is not the sentinel
\* has TimesRetired = 1 and RetiredCharacterLevels = 25, in the tree in
\* memory and in the written file, whatever it held before and wherever the
\* sentinel slot stands.
C6_VisibleSlotsFixed ==
  Succeeded =>
    \A i \in DOMAIN WrittenSlots :
      ~HasSentinelId(WrittenSlots[i]) =>
        /\ WrittenSlots[i].props["TimesRetired"].value = MIN_PROMOS
        /\ WrittenSlots[i].props["RetiredCharacterLevels"].value = RED_LEVELS_PER_PROMO
        /\ class_saves_of(save)[i].props = WrittenSlots[i].props

\* C6 witness: a first run succeeded on a file whose sentinel slot is the
\* last one and whose visible slots held different values, none of them (1, 25).
C6_Witness ==
  /\ Succeeded /\ ~processed
  /\ HasSentinelId(InputSlots[NumClassSlots])
  /\ InputSlots[1].props["TimesRetired"].value = 0
  /\ InputSlots[2].props["TimesRetired"].value = OldPromos

\* C7: a tree without CharacterSaves, or whose CharacterSaves is not an Array
\* of StructProperty declaring element struct type CharacterSave, makes
\* navigation fail with a shape error, and the file is not overwritten.
C7_ShapeMismatchIsAnError ==
  (pc = "done" /\ Decoded /\ ~ShapeOk(InputSave)) =>
    (result = "shape_error" /\ disk[save_path] = start_bytes)

MistypedSlot(cs) ==
  \/ "SavegameID" \in DOMAIN cs.props
       /\ ~(cs.props["SavegameID"].variant = "Struct"
              /\ cs.props["SavegameID"].struct_type = "Guid")
  \/ "TimesRetired" \in DOMAIN cs.props /\ cs.props["TimesRetired"].variant # "Int"
  \/ "RetiredCharacterLevels" \in DOMAIN cs.props
       /\ cs.props["RetiredCharacterLevels"].variant # "Int"

\* C8: if any slot's SavegameID is not a Guid-typed struct, or its
\* TimesRetired or RetiredCharacterLevels is not an Int, the run ends in an
\* error: it never gets past the field writes and never completes successfully.
C8_StrictFieldTypes ==
  (Decoded /\ ShapeOk(InputSave) /\ \E i \in DOMAIN InputSlots : MistypedSlot(InputSlots[i])) =>
    /\ pc \notin {"encode", "write"}
    /\ result \notin {"ok", "encode_failed", "write_failed"}

\* A tree without the TimesRetired and RetiredCharacterLevels fields of its slots.
Frame(s) ==
  IF ~HasCharacterSaves(s) THEN s
  ELSE WithClassSaves(s,
         [i \in DOMAIN class_saves_of(s) |->
            [class_saves_of(s)[i] EXCEPT !.props =
               WithoutKey(WithoutKey(@, "TimesRetired"), "RetiredCharacterLevels")]])

\* C9: across a run only the TimesRetired and RetiredCharacterLevels fields
\* of the class slots change, in the tree in memory and in the file: every
\* other field of a slot, the number and order of the slots and every other
\* root property stay as decoded.
C9_FrameCondition ==
  /\ Decoded => Frame(save) = Frame(InputSave)
  /\ (start_bytes.kind = "container" /\ disk[save_path].kind = "container") =>
       Frame(DecodeBytes(disk[save_path])) = Frame(InputSave)

\* C9 witness: a run succeeded and wrote a file that differs from the one it read.
C9_Witness == Succeeded /\ disk[save_path] # start_bytes

\* C10: the backup is copied before the file is read, decoded or
\* overwritten; once the copy has succeeded the backup holds the bytes the
\* save file held when the run started, however the run goes on; a run whose
\* copy fails ends there with the save file as it was.
C10_BackupHoldsOriginal ==
  /\ pc = "copy" => (buf = EmptyBuf /\ save = BlankSave /\ disk[save_path] = start_bytes)
  /\ (pc \notin {"idle", "copy"} /\ result # "copy_failed") =>
       disk[backup_save_path] = start_bytes
  /\ result = "copy_failed" => (pc = "done" /\ disk[save_path] = start_bytes)

\* C10 witness: a run overwrote the save file and the backup holds what the
\* file held before.
C10_Witness ==
  /\ Succeeded
  /\ disk[save_path] # start_bytes
  /\ disk[backup_save_path] = start_bytes

====
